---- MODULE Spec2Model ----
(***************************************************************************)
(* The note-transfer and tempo protocols of the MIDI bridge:               *)
(*   - the encoder of trigger.py (send_melody, change_tempo,               *)
(*     int_to_midi_bytes, send_midi_note), which writes to output_port;    *)
(*   - the decoder of device_test.py (OnMidiMsg, midi_notes_to_int,        *)
(*     change_tempo_from_notes), which runs inside the host's callback.    *)
(*                                                                         *)
(* Real numbers (note length and position, in beats) are fixed-point       *)
(* integers in hundredths of a beat on both sides: 1.25 beats is 125.      *)
(***************************************************************************)
EXTENDS Integers, Sequences, FiniteSets, TLC

VARIABLES
    notes_data,         \* send_melody's argument: a sequence of lines
    bpm,                \* change_tempo's argument, in tenths of a BPM
    pc,                 \* "ready" before the encoder call, "sent" after it
    result,             \* what the encoder call returned
    wire,               \* every message sent to output_port, in order
    rx,                 \* how many messages of the wire the host has handled
    lost,               \* the wire positions of the values the port dropped
    event,              \* the message the host handled last
    half_up,            \* how round() resolves each x.5 the inputs can produce
    calls,              \* the send_melody calls the server has finished
    receiving_mode,     \* decoder globals of OnMidiMsg ...
    message_count,
    messages_received,
    midi_notes_array,
    current_note,
    current_velocity,
    current_length,
    current_position,
    decimal_state,
    decimal_target,
    host_notes,         \* the calls made to channels.addNote, in order
    note_array,         \* change_tempo_from_notes' argument, last call
    bpm_value,          \* what that call returned
    host_tempo          \* the REC_Tempo value the host was given last

encoder_vars == <<notes_data, bpm, pc, result, wire, half_up, calls>>
decoder_vars == <<receiving_mode, message_count, messages_received,
                  midi_notes_array, current_note, current_velocity,
                  current_length, current_position, decimal_state,
                  decimal_target>>
host_vars == <<host_notes, note_array, bpm_value, host_tempo>>
vars == <<encoder_vars, rx, lost, event, decoder_vars, host_vars>>

---------------------------------------------------------------------------
(* Bounds of the model *)

MaxLines == 2           \* longest short input, in lines
MaxLong == 128          \* longest input made of one repeated line
BpmMargin == 25         \* how far outside [20, 999] the tempo inputs go
MaxReceived == 6        \* most data messages followed within one transfer
MaxCalls == 3           \* most send_melody calls recorded on one port

(* Program constants *)

MIDI_MAX == 127         \* min(127, ...) of the encoder
START_MARKER == 0       \* send_midi_note(0) / note == 0
END_MARKER == 127       \* send_midi_note(127)
MIDI_NOTEON == 144      \* status of a note-on on channel 0 (0x90)
MIDI_NOTEOFF == 128     \* status of a note-off on channel 0 (0x80)
DECIMAL_MARKER == 100
LENGTH_MARKER == 101
POSITION_MARKER == 102
NOTE_TEMPO_START == 72  \* send_midi_note(72)
NOTE_TEMPO_END == 73    \* send_midi_note(73)
BPM_MIN == 20
BPM_MAX == 999
NONE == 0 - 1           \* Python's None in a numeric global

Min(a, b) == IF a < b THEN a ELSE b
Max(a, b) == IF a > b THEN a ELSE b

---------------------------------------------------------------------------
(* Input text.  A line is the sequence of its comma-separated fields; a    *)
(* field is a literal: "int" (an integer literal), "dec" (a literal with   *)
(* a decimal point) or "bad" (not a number).  v is its value in            *)
(* hundredths.                                                             *)

IntLit(n) == [k |-> "int", v |-> 100 * n]
DecLit(h) == [k |-> "dec", v |-> h]
BadLit == [k |-> "bad", v |-> 0]

\* int(s): raises ValueError unless s is an integer literal
IntOk(f) == f.k = "int"
IntOf(f) == f.v \div 100
\* float(s): raises ValueError unless s is a number; the literals of the
\* model are finite decimals ("inf" and "nan" are not among them)
FloatOk(f) == f.k \in {"int", "dec"}
FloatOf(f) == f.v

---------------------------------------------------------------------------
(* Encoder: trigger.py *)

\* ValidLine without the field-count test
ValidLineAnyCount(line) ==
    /\ Len(line) >= 4
    /\ IntOk(line[1]) /\ IntOk(line[2])
    /\ FloatOk(line[3]) /\ FloatOk(line[4])

\* send_melody, the parsing loop: which lines yield a note
ValidLine(line) ==
    /\ line # <<>>                                  \* if not line.strip()
    /\ Len(line) = 4                                \* len(parts) != 4
    /\ IntOk(line[1]) /\ IntOk(line[2])             \* except ValueError
    /\ FloatOk(line[3]) /\ FloatOk(line[4])

\* Clamp without the upper limit
ClampLowOnly(x) == Max(0, x)

Clamp(x) == Min(MIDI_MAX, Max(0, x))

NonNegative(x) == Max(0, x)

\* the tuple appended to notes: (note, velocity, length, position)
ParseNote(line) ==
    <<Clamp(IntOf(line[1])), Clamp(IntOf(line[2])),
      NonNegative(FloatOf(line[3])), NonNegative(FloatOf(line[4]))>>

ParseNotes(data) ==
    LET valid == SelectSeq(data, ValidLine)
    IN  [i \in 1..Len(valid) |-> ParseNote(valid[i])]

\* min(127, int(length))
WholePart(length) == Min(MIDI_MAX, length \div 100)

\* round(x) of x = t/10 for an integer t >= 0.  Python rounds the binary
\* double, so an exact half goes up or down with the representation error
\* of the operand: up says which.
PyRound(t, up) ==
    LET q == t \div 10
        m == t % 10
    IN  IF m < 5 THEN q
        ELSE IF m > 5 THEN q + 1
        ELSE IF up THEN q + 1 ELSE q

\* DecimalPart without the final % 10
DecimalPartNoWrap(length, ties) ==
    LET t == length - 100 * WholePart(length)
    IN  PyRound(t, t % 10 = 5 /\ ties[length])

\* int(round((length - length_whole) * 10)) % 10
DecimalPart(length, ties) ==
    LET t == length - 100 * WholePart(length)
    IN  PyRound(t, t % 10 = 5 /\ ties[length]) % 10

\* the six values appended to midi_data for one note
NoteFrames(n, ties) ==
    <<n[1], n[2],
      WholePart(n[3]), DecimalPart(n[3], ties),
      WholePart(n[4]), DecimalPart(n[4], ties)>>

MidiData(notes, ties) ==
    [i \in 1..(6 * Len(notes)) |->
        NoteFrames(notes[((i - 1) \div 6) + 1], ties)[((i - 1) % 6) + 1]]

\* CountFrame without the cap
CountFrameUncapped(notes) == Len(notes)

\* send_midi_note(min(127, len(notes)))
CountFrame(notes) == Min(MIDI_MAX, Len(notes))

\* the values send_melody hands to send_midi_note, in order
MelodyValues(notes, ties) ==
    <<START_MARKER, CountFrame(notes)>> \o MidiData(notes, ties)
        \o <<END_MARKER>>

\* mido.Message(type, note, velocity) as the host's event sees it
NoteOn(note, velocity) ==
    [status |-> MIDI_NOTEON, data1 |-> note, data2 |-> velocity]
NoteOff(note) ==
    [status |-> MIDI_NOTEOFF, data1 |-> note, data2 |-> 0]

\* send_midi_note with the two sends exchanged
SendMidiNoteOffFirst(note) == <<NoteOff(note), NoteOn(note, 1)>>

\* send_midi_note(note, velocity=1): a note-on, then a note-off
SendMidiNote(note) == <<NoteOn(note, 1), NoteOff(note)>>

\* the messages a sequence of send_midi_note calls puts on the port
SendAll(values) ==
    [i \in 1..(2 * Len(values)) |->
        SendMidiNote(values[((i - 1) \div 2) + 1])[((i - 1) % 2) + 1]]

\* SendMelody without the return on an empty note list
SendMelodyUnchecked ==
    /\ pc = "ready"
    /\ result' = "Melody successfully transferred"
    /\ wire' = wire \o SendAll(MelodyValues(ParseNotes(notes_data), half_up))
    /\ pc' = "sent"
    /\ UNCHANGED <<notes_data, bpm, half_up, calls, rx, lost, event,
                   decoder_vars, host_vars>>

\* SendMelody that opens a transfer with the start marker only on a port
\* nothing was sent to yet
SendMelodyFirstStartOnly ==
    /\ pc = "ready"
    /\ LET notes == ParseNotes(notes_data)
           msgs == SendAll(MelodyValues(notes, half_up))
       IN  IF notes = <<>>
           THEN /\ result' = "No valid notes found in input data"
                /\ wire' = wire
           ELSE /\ result' = "Melody successfully transferred"
                /\ wire' = IF wire = <<>> THEN msgs
                           ELSE wire \o SubSeq(msgs, 3, Len(msgs))
    /\ pc' = "sent"
    /\ UNCHANGED <<notes_data, bpm, half_up, calls, rx, lost, event,
                   decoder_vars, host_vars>>

SendMelody ==
    /\ pc = "ready"
    /\ LET notes == ParseNotes(notes_data)
       IN  IF notes = <<>>
           THEN /\ result' = "No valid notes found in input data"
                /\ wire' = wire
           ELSE /\ result' = "Melody successfully transferred"
                /\ wire' = wire \o SendAll(MelodyValues(notes, half_up))
    /\ pc' = "sent"
    /\ UNCHANGED <<notes_data, bpm, half_up, calls, rx, lost, event,
                   decoder_vars, host_vars>>

---------------------------------------------------------------------------
(* Decoder: OnMidiMsg of device_test.py.  g is the record of its globals. *)

Globals ==
    [receiving_mode |-> receiving_mode, message_count |-> message_count,
     messages_received |-> messages_received,
     midi_notes_array |-> midi_notes_array,
     current_note |-> current_note, current_velocity |-> current_velocity,
     current_length |-> current_length,
     current_position |-> current_position,
     decimal_state |-> decimal_state, decimal_target |-> decimal_target]

\* the values the lazy initialisation at the head of OnMidiMsg gives
InitialGlobals ==
    [receiving_mode |-> FALSE, message_count |-> 0, messages_received |-> 0,
     midi_notes_array |-> <<>>,
     current_note |-> NONE, current_velocity |-> NONE,
     current_length |-> NONE, current_position |-> NONE,
     decimal_state |-> 0, decimal_target |-> "None"]

\* IsNoteOn without the test of the velocity
IsNoteOnAnyVelocity(ev) ==
    /\ ev.status >= MIDI_NOTEON
    /\ ev.status < MIDI_NOTEON + 16

\* event.status >= midi.MIDI_NOTEON and event.status < midi.MIDI_NOTEON + 16
\* and event.data2 > 0
IsNoteOn(ev) ==
    /\ ev.status >= MIDI_NOTEON
    /\ ev.status < MIDI_NOTEON + 16
    /\ ev.data2 > 0

\* StartReceiving that keeps the notes and the partial note it finds
StartReceivingKeepNotes(g) ==
    [g EXCEPT !.receiving_mode = TRUE, !.message_count = 0,
              !.messages_received = 0]

\* "Toggle receiving mode with note 0": the reset of every global
StartReceiving(g) ==
    [InitialGlobals EXCEPT !.receiving_mode = TRUE]

\* current_note, current_velocity and current_length are all set
HasNoteAndLength(g) ==
    /\ g.current_note # NONE
    /\ g.current_velocity # NONE
    /\ g.current_length # NONE

NoteComplete(g) == HasNoteAndLength(g) /\ g.current_position # NONE

\* midi_notes_array.append((current_note, current_velocity, current_length,
\* current_position))
AppendNote(g) ==
    [g EXCEPT !.midi_notes_array =
        Append(@, <<g.current_note, g.current_velocity, g.current_length,
                    g.current_position>>)]

\* "Reset for next note"
ResetNote(g) ==
    [g EXCEPT !.current_note = NONE, !.current_velocity = NONE,
              !.current_length = NONE, !.current_position = NONE]

\* (x or 0): None and 0.0 both count as 0
OrZero(x) == IF x = NONE THEN 0 ELSE x

\* the branch "elif decimal_state == 1": note / 10.0 is added to the target
DecimalValue(g, note) ==
    LET dv == 10 * note
        g1 == IF g.decimal_target = "length"
              THEN [g EXCEPT !.current_length = OrZero(@) + dv]
              ELSE IF g.decimal_target = "position"
              THEN [g EXCEPT !.current_position = OrZero(@) + dv]
              ELSE g
        g2 == [g1 EXCEPT !.decimal_state = 0]
    IN  IF NoteComplete(g2) /\ g2.decimal_target = "position"
        THEN ResetNote(AppendNote(g2))
        ELSE g2

\* WholeValue that appends at a position whatever else is set
WholeValueUnchecked(g, note) ==
    IF g.decimal_target = "length"
    THEN [g EXCEPT !.current_length = 100 * note]
    ELSE IF g.decimal_target = "position"
    THEN LET g1 == [g EXCEPT !.current_position = 100 * note]
         IN  IF /\ g1.messages_received < g1.message_count - 1
                /\ note # DECIMAL_MARKER
             THEN ResetNote(AppendNote(g1))
             ELSE g1
    ELSE g

\* the branch "elif decimal_target is not None": float(note) is the whole part
WholeValue(g, note) ==
    IF g.decimal_target = "length"
    THEN [g EXCEPT !.current_length = 100 * note]
    ELSE IF g.decimal_target = "position"
    THEN LET g1 == [g EXCEPT !.current_position = 100 * note]
         IN  IF /\ HasNoteAndLength(g1)
                /\ g1.messages_received < g1.message_count - 1
                /\ note # DECIMAL_MARKER
             THEN ResetNote(AppendNote(g1))
             ELSE g1
    ELSE g

\* the final branch: a note value and its velocity
NewNote(g, note, velocity) ==
    LET g1 == IF NoteComplete(g) THEN AppendNote(g) ELSE g
    IN  [g1 EXCEPT !.current_note = note, !.current_velocity = velocity]

\* ProcessMessage that takes 127 as an end marker at any place
ProcessMessageEndMarker(g, note, velocity) ==
    IF note = END_MARKER THEN [g EXCEPT !.messages_received = g.message_count]
    ELSE IF note = DECIMAL_MARKER THEN [g EXCEPT !.decimal_state = 1]
    ELSE IF note = LENGTH_MARKER
    THEN [g EXCEPT !.decimal_target = "length", !.decimal_state = 0]
    ELSE IF note = POSITION_MARKER
    THEN [g EXCEPT !.decimal_target = "position", !.decimal_state = 0]
    ELSE IF g.decimal_state = 1 THEN DecimalValue(g, note)
    ELSE IF g.decimal_target # "None" THEN WholeValue(g, note)
    ELSE NewNote(g, note, velocity)

\* "Process based on message type"
ProcessMessage(g, note, velocity) ==
    IF note = DECIMAL_MARKER THEN [g EXCEPT !.decimal_state = 1]
    ELSE IF note = LENGTH_MARKER
    THEN [g EXCEPT !.decimal_target = "length", !.decimal_state = 0]
    ELSE IF note = POSITION_MARKER
    THEN [g EXCEPT !.decimal_target = "position", !.decimal_state = 0]
    ELSE IF g.decimal_state = 1 THEN DecimalValue(g, note)
    ELSE IF g.decimal_target # "None" THEN WholeValue(g, note)
    ELSE NewNote(g, note, velocity)

\* CheckAllReceived that ends the transfer one message late
CheckAllReceivedLate(g) ==
    IF g.messages_received > g.message_count
    THEN LET g1 == [g EXCEPT !.receiving_mode = FALSE]
         IN  IF NoteComplete(g1) THEN AppendNote(g1) ELSE g1
    ELSE g

\* "Check if we've received all expected messages"
CheckAllReceived(g) ==
    IF g.messages_received >= g.message_count
    THEN LET g1 == [g EXCEPT !.receiving_mode = FALSE]
         IN  IF NoteComplete(g1) THEN AppendNote(g1) ELSE g1
    ELSE g

\* OnMidiMsgStep that counts every data message twice
OnMidiMsgStepCountTwice(g, ev) ==
    IF ~IsNoteOn(ev) THEN g
    ELSE LET note == ev.data1
             velocity == ev.data2
         IN  IF note = START_MARKER /\ ~g.receiving_mode
             THEN StartReceiving(g)
             ELSE IF g.receiving_mode /\ g.message_count = 0
             THEN [g EXCEPT !.message_count = note]
             ELSE IF ~g.receiving_mode THEN g
             ELSE CheckAllReceived(
                     ProcessMessage(
                         [g EXCEPT !.messages_received = @ + 2],
                         note, velocity))

\* the globals after OnMidiMsg(event)
OnMidiMsgStep(g, ev) ==
    IF ~IsNoteOn(ev) THEN g
    ELSE LET note == ev.data1
             velocity == ev.data2
         IN  IF note = START_MARKER /\ ~g.receiving_mode
             THEN StartReceiving(g)
             ELSE IF g.receiving_mode /\ g.message_count = 0
             THEN [g EXCEPT !.message_count = note]
             ELSE IF ~g.receiving_mode THEN g
             ELSE CheckAllReceived(
                     ProcessMessage(
                         [g EXCEPT !.messages_received = @ + 1],
                         note, velocity))

\* OnMidiMsg never calls channels.addNote: record_notes_batch(midi_notes_array)
\* at its end is commented out
OnMidiMsg(ev) ==
    LET g == OnMidiMsgStep(Globals, ev)
    IN  /\ receiving_mode' = g.receiving_mode
        /\ message_count' = g.message_count
        /\ messages_received' = g.messages_received
        /\ midi_notes_array' = g.midi_notes_array
        /\ current_note' = g.current_note
        /\ current_velocity' = g.current_velocity
        /\ current_length' = g.current_length
        /\ current_position' = g.current_position
        /\ decimal_state' = g.decimal_state
        /\ decimal_target' = g.decimal_target
        /\ event' = ev
        /\ UNCHANGED host_vars

\* the transport hands the next message of the wire to the host
Deliver ==
    /\ rx < Len(wire)
    /\ rx' = rx + 1
    /\ OnMidiMsg(wire[rx + 1])
    /\ UNCHANGED <<encoder_vars, lost>>

DecoderInit ==
    /\ receiving_mode = InitialGlobals.receiving_mode
    /\ message_count = InitialGlobals.message_count
    /\ messages_received = InitialGlobals.messages_received
    /\ midi_notes_array = InitialGlobals.midi_notes_array
    /\ current_note = InitialGlobals.current_note
    /\ current_velocity = InitialGlobals.current_velocity
    /\ current_length = InitialGlobals.current_length
    /\ current_position = InitialGlobals.current_position
    /\ decimal_state = InitialGlobals.decimal_state
    /\ decimal_target = InitialGlobals.decimal_target
    /\ host_notes = <<>>
    /\ note_array = <<>>
    /\ bpm_value = NONE
    /\ host_tempo = NONE
    /\ rx = 0
    /\ lost = {}
    /\ event = NoteOff(0)

---------------------------------------------------------------------------
(* Inputs of send_melody *)

\* "60,100,1.0,0.0"
LineValid == <<IntLit(60), IntLit(100), DecLit(100), DecLit(0)>>
\* "127,0,127.9,0.5"
LineEdge == <<IntLit(127), IntLit(0), DecLit(12790), DecLit(50)>>
\* "200,-5,-1.5,-0.1"
LineOutside == <<IntLit(200), IntLit(0 - 5), DecLit(0 - 150), DecLit(0 - 10)>>
\* "64,90,0.96,0.25"
LineFine == <<IntLit(64), IntLit(90), DecLit(96), DecLit(25)>>
\* "-3,300,130.0,3"
LineLong == <<IntLit(0 - 3), IntLit(300), DecLit(13000), IntLit(3)>>
\* "101,102,100.0,102.0"
LineMarkers == <<IntLit(101), IntLit(102), DecLit(10000), DecLit(10200)>>
\* "60,100,1.0"
LineThree == <<IntLit(60), IntLit(100), DecLit(100)>>
\* "60,100,1.0,0.0,1"
LineFive == <<IntLit(60), IntLit(100), DecLit(100), DecLit(0), IntLit(1)>>
\* "60,abc,1.0,0.0"
LineText == <<IntLit(60), BadLit, DecLit(100), DecLit(0)>>
\* "60.5,100,1.0,0.0"
LinePitchDec == <<DecLit(6050), IntLit(100), DecLit(100), DecLit(0)>>

Lines ==
    {LineValid, LineEdge, LineOutside, LineFine, LineLong, LineMarkers,
     LineThree, LineFive, LineText, LinePitchDec, <<>>}

LongLines == {LineValid, LineMarkers}

Repeat(line, n) == [i \in 1..n |-> line]

SeqsUpTo(S, n) == UNION {[1..k -> S] : k \in 0..n}

MelodyInputs ==
    SeqsUpTo(Lines, MaxLines)
        \cup {Repeat(l, n) : l \in LongLines, n \in MIDI_MAX..MaxLong}
        \cup {<<LineThree>> \o Repeat(l, MaxLong) : l \in LongLines}

\* the lengths and positions whose tenths digit round() decides on an exact
\* half
TieValues ==
    {f.v : f \in UNION {{l[i] : i \in 1..Len(l)} : l \in Lines}}
        \cap {v \in 0..(128 * 100) : v % 10 = 5}

---------------------------------------------------------------------------
(* One note transfer: a call of send_melody, and the host handling the    *)
(* messages one at a time.                                                *)

MelodyInit ==
    /\ notes_data \in MelodyInputs
    /\ bpm = NONE
    /\ half_up \in [TieValues -> BOOLEAN]
    /\ pc = "ready"
    /\ result = "None"
    /\ wire = <<>>
    /\ calls = <<>>
    /\ DecoderInit

MelodyNext == SendMelody \/ Deliver

SpecMelody == MelodyInit /\ [][MelodyNext]_vars

---------------------------------------------------------------------------
(* Several calls of send_melody on one server: mcp.run serves one tool    *)
(* call after the other, all of them writing to the same output_port.     *)

CallInputs ==
    {<<>>, <<LineValid>>, <<LineFine>>, <<LineThree>>, <<LineEdge>>,
     <<LineValid, LineFine>>, <<LineFine, LineValid>>,
     <<LineThree, LineValid>>}

\* how much of the wire the calls before the current one wrote
WrittenBefore == IF calls = <<>> THEN 0 ELSE calls[Len(calls)].upto

\* the call has returned and the server takes the next request: a new
\* argument, nothing else of the process changes
NextCall ==
    /\ pc = "sent"
    /\ Len(calls) < MaxCalls
    /\ calls' = Append(calls,
                    [data |-> notes_data, result |-> result,
                     emitted |-> SubSeq(wire, WrittenBefore + 1, Len(wire)),
                     upto |-> Len(wire)])
    /\ notes_data' \in CallInputs
    /\ pc' = "ready"
    /\ result' = "None"
    /\ UNCHANGED <<bpm, wire, half_up, rx, lost, event, decoder_vars,
                   host_vars>>

CallsInit ==
    /\ notes_data \in CallInputs
    /\ bpm = NONE
    /\ half_up \in [TieValues -> BOOLEAN]
    /\ pc = "ready"
    /\ result = "None"
    /\ wire = <<>>
    /\ calls = <<>>
    /\ DecoderInit

CallsNext == SendMelody \/ NextCall

SpecCalls == CallsInit /\ [][CallsNext]_vars

---------------------------------------------------------------------------
(* Two transfers, the first of which loses one data frame on the way to   *)
(* the host.                                                              *)

\* melodies whose lengths and positions are multiples of 0.1
LossInputs == {<<LineValid>>, <<LineEdge>>}

\* the port drops the next value, the note-on and its note-off: a data
\* frame of the first transfer, and only one
Drop ==
    /\ pc = "sent"
    /\ calls = <<>>
    /\ lost = {}
    /\ (rx + 1) % 2 = 1
    /\ rx + 1 >= 5
    /\ rx + 2 <= Len(wire) - 2
    /\ rx' = rx + 2
    /\ lost' = {rx + 1}
    /\ UNCHANGED <<encoder_vars, event, decoder_vars, host_vars>>

\* the second call of send_melody
SecondCall ==
    /\ calls = <<>>
    /\ notes_data' \in LossInputs
    /\ NextCall

LossInit ==
    /\ notes_data \in LossInputs
    /\ bpm = NONE
    /\ half_up \in [TieValues -> BOOLEAN]
    /\ pc = "ready"
    /\ result = "None"
    /\ wire = <<>>
    /\ calls = <<>>
    /\ DecoderInit

LossNext == SendMelody \/ SecondCall \/ Deliver \/ Drop

SpecLoss == LossInit /\ [][LossNext]_vars

---------------------------------------------------------------------------
(* The decoder alone: the host hands OnMidiMsg any message of any device. *)

InValues ==
    {START_MARKER, 5, 7, DECIMAL_MARKER, LENGTH_MARKER, POSITION_MARKER,
     END_MARKER}

Events ==
    {NoteOn(v, 1) : v \in InValues} \cup {NoteOn(1, 0), NoteOff(1)}

Receive ==
    /\ messages_received < MaxReceived
    /\ \E ev \in Events : OnMidiMsg(ev)
    /\ UNCHANGED <<encoder_vars, rx, lost>>

DecoderOnlyInit ==
    /\ notes_data = <<>>
    /\ bpm = NONE
    /\ half_up = [v \in {} |-> TRUE]
    /\ pc = "sent"
    /\ result = "None"
    /\ wire = <<>>
    /\ calls = <<>>
    /\ DecoderInit

DecoderNext == Receive

SpecDecoder == DecoderOnlyInit /\ [][DecoderNext]_vars

---------------------------------------------------------------------------
(* Tempo: change_tempo and int_to_midi_bytes of trigger.py,               *)
(* midi_notes_to_int, change_tempo_from_notes and change_tempo of         *)
(* device_test.py.                                                        *)

RECURSIVE MidiBytesLoop(_, _)
\* while value > 0: midi_bytes.insert(0, value & 0x7F); value >>= 7
MidiBytesLoop(value, midi_bytes) ==
    IF value > 0
    THEN MidiBytesLoop(value \div 128, <<value % 128>> \o midi_bytes)
    ELSE midi_bytes

RECURSIVE MidiBytesLoopAppend(_, _)
\* MidiBytesLoop with append in place of insert(0, ...)
MidiBytesLoopAppend(value, midi_bytes) ==
    IF value > 0
    THEN MidiBytesLoopAppend(value \div 128, midi_bytes \o <<value % 128>>)
    ELSE midi_bytes

\* int_to_midi_bytes, least-significant digit first
int_to_midi_bytes_lsb(value) ==
    LET v == IF value < 0 THEN 0 - value ELSE value
    IN  IF v = 0 THEN <<0>> ELSE MidiBytesLoopAppend(v, <<>>)

\* int_to_midi_bytes that always returns two digits
int_to_midi_bytes_two(value) ==
    LET v == IF value < 0 THEN 0 - value ELSE value
    IN  <<(v \div 128) % 128, v % 128>>

int_to_midi_bytes(value) ==
    LET v == IF value < 0 THEN 0 - value ELSE value
    IN  IF v = 0 THEN <<0>> ELSE MidiBytesLoop(v, <<>>)

\* ClampBpm without the upper limit
ClampBpmLowOnly(b) == Max(10 * BPM_MIN, b)

\* bpm = max(20, min(bpm, 999)) when bpm < 20 or bpm > 999; b is in tenths
ClampBpm(b) ==
    IF b < 10 * BPM_MIN \/ b > 10 * BPM_MAX
    THEN Max(10 * BPM_MIN, Min(b, 10 * BPM_MAX))
    ELSE b

\* bpm_int = int(bpm), of a bpm that is positive
BpmInt(b) == ClampBpm(b) \div 10

\* the values change_tempo hands to send_midi_note, in order
TempoValues(b) ==
    <<NOTE_TEMPO_START>> \o int_to_midi_bytes(BpmInt(b))
        \o <<NOTE_TEMPO_END>>

ChangeTempo ==
    /\ pc = "ready"
    /\ wire' = wire \o SendAll(TempoValues(bpm))
    /\ pc' = "sent"
    /\ UNCHANGED <<notes_data, bpm, result, half_up, calls, rx, lost, event,
                   decoder_vars, host_vars>>

RECURSIVE BitOr(_, _)
\* a | b of two non-negative integers
BitOr(a, b) ==
    IF a = 0 THEN b
    ELSE IF b = 0 THEN a
    ELSE (IF a % 2 = 1 \/ b % 2 = 1 THEN 1 ELSE 0)
            + 2 * BitOr(a \div 2, b \div 2)

\* NoteValue without the upper limit
NoteValueLowOnly(note) == Max(0, note)

\* note_value = min(127, max(0, note))
NoteValue(note) == Min(MIDI_MAX, Max(0, note))

RECURSIVE MidiNotesFold(_, _)
\* for note in midi_notes: result = (result << 7) | note_value
MidiNotesFold(result_, midi_notes) ==
    IF midi_notes = <<>> THEN result_
    ELSE MidiNotesFold(BitOr(result_ * 128, NoteValue(Head(midi_notes))),
                       Tail(midi_notes))

midi_notes_to_int(midi_notes) == MidiNotesFold(0, midi_notes)

\* TempoFromNotes without the upper limit
TempoFromNotesLowOnly(notes) ==
    LET v == midi_notes_to_int(notes)
    IN  IF v < BPM_MIN THEN BPM_MIN ELSE v

\* change_tempo_from_notes: the value it passes on and returns
TempoFromNotes(notes) ==
    LET v == midi_notes_to_int(notes)
    IN  IF v < BPM_MIN THEN BPM_MIN
        ELSE IF v > BPM_MAX THEN BPM_MAX
        ELSE v

\* the values of the note-on messages of a wire, in order
NoteOnValues(w) ==
    LET on == SelectSeq(w, LAMBDA m : m.status = MIDI_NOTEON)
    IN  [i \in 1..Len(on) |-> on[i].data1]

\* what lies between the first and the last value
Inner(values) == SubSeq(values, 2, Len(values) - 1)

NoteArrays ==
    {<<>>, <<0>>, <<0, 19>>, <<7, 103>>, <<7, 104>>, <<127, 127>>,
     <<1, 2, 3>>, <<200>>, <<0 - 1, 45>>}

\* the host runs change_tempo_from_notes(note_array), which calls
\* change_tempo(bpm_value): general.processRECEvent(REC_Tempo, bpm * 1000)
ChangeTempoFromNotes ==
    /\ pc = "sent"
    /\ rx = Len(wire)
    /\ \E arr \in NoteArrays \cup {Inner(NoteOnValues(wire))} :
        /\ note_array' = arr
        /\ bpm_value' = TempoFromNotes(arr)
        /\ host_tempo' = TempoFromNotes(arr) * 1000
    /\ UNCHANGED <<encoder_vars, rx, lost, event, decoder_vars, host_notes>>

BpmInputs ==
    {10 * b : b \in (BPM_MIN - BpmMargin)..(BPM_MAX + BpmMargin)}
        \cup {10 * b + 5 : b \in {BPM_MIN - 1, BPM_MIN, 120, BPM_MAX - 1,
                                   BPM_MAX}}

TempoInit ==
    /\ notes_data = <<>>
    /\ bpm \in BpmInputs
    /\ half_up = [v \in {} |-> TRUE]
    /\ pc = "ready"
    /\ result = "None"
    /\ wire = <<>>
    /\ calls = <<>>
    /\ DecoderInit

TempoNext == ChangeTempo \/ Deliver \/ ChangeTempoFromNotes

SpecTempo == TempoInit /\ [][TempoNext]_vars

---------------------------------------------------------------------------
(* Properties.  What the specification says, stated on the wire and on    *)
(* the decoder's globals.                                                 *)

\* the values on the wire, and the six frames of the i-th note among them
WireValues == NoteOnValues(wire)
Frames(values, i) == SubSeq(values, 6 * i - 3, 6 * i + 2)
FramesOf(i) == Frames(WireValues, i)

\* a line send_melody can read: four fields, pitch and velocity integer
\* literals, length and position numbers
Readable(line) ==
    /\ Len(line) = 4
    /\ line[1].k = "int" /\ line[2].k = "int"
    /\ line[3].k # "bad" /\ line[4].k # "bad"

\* a line with a wrong field count or a field that is no number
Malformed(line) ==
    Len(line) # 4 \/ \E j \in 1..Len(line) : line[j].k = "bad"

ReadableLines == SelectSeq(notes_data, Readable)

Sent == pc = "sent"
Delivered == Sent /\ rx = Len(wire)

\* the input of the round-trip property: 1 to 127 notes, pitch and
\* velocity in 0..127, length and position multiples of 0.1 in [0, 127.9]
InDomain(line) ==
    /\ Readable(line)
    /\ line[1].v \in {100 * x : x \in 0..127}
    /\ line[2].v \in {100 * x : x \in 0..127}
    /\ line[3].v \in {10 * x : x \in 0..1279}
    /\ line[4].v \in {10 * x : x \in 0..1279}

RoundTripInput ==
    /\ Len(notes_data) \in 1..127
    /\ \A i \in 1..Len(notes_data) : InDomain(notes_data[i])

\* C1: once every message of a transfer of in-domain notes has been handled
\* by a decoder that was idle, the decoder's note list is the input list:
\* same notes, same order, same pitch, velocity, length and position.
RoundTrip ==
    (Delivered /\ RoundTripInput) =>
        midi_notes_array =
            [i \in 1..Len(notes_data) |->
                <<notes_data[i][1].v \div 100, notes_data[i][2].v \div 100,
                  notes_data[i][3].v, notes_data[i][4].v>>]

ClampOnEncode ==
    LET lines == ReadableLines
        sent == WireValues
    IN  Sent =>
        \A i \in 1..Len(lines) :
            LET line == lines[i]
                f == Frames(sent, i)
            IN  /\ line[1].v > 12700 => f[1] = 127
                /\ line[1].v < 0 => f[1] = 0
                /\ line[2].v > 12700 => f[2] = 127
                /\ line[2].v < 0 => f[2] = 0
                /\ line[3].v < 0 => (f[3] = 0 /\ f[4] = 0)
                /\ line[4].v < 0 => (f[5] = 0 /\ f[6] = 0)

\* C5 witness: pitch 200, velocity -5 and negative times, and pitch -3,
\* velocity 300, were both sent
ClampOnEncodeWitness ==
    /\ Sent
    /\ notes_data = <<LineOutside, LineLong>>
    /\ FramesOf(1) = <<127, 0, 0, 0, 0, 0>>
    /\ FramesOf(2)[1] = 0 /\ FramesOf(2)[2] = 127

\* C6: a line with a wrong field count or a non-numeric field is skipped
\* and the call goes on: the transfer holds the notes of the readable lines
\* in input order, and the count frame is their number, capped at 127.
MalformedLineSkip ==
    Sent =>
        LET lines == ReadableLines
            n == Len(lines)
            sent == WireValues
        IN  /\ \A i \in 1..n : ~Malformed(lines[i])
            /\ n = 0 => wire = <<>>
            /\ n >= 1 =>
                /\ Len(sent) = 6 * n + 3
                /\ sent[2] = (IF n > 127 THEN 127 ELSE n)
                /\ \A i \in 1..n :
                    Frames(sent, i) = NoteFrames(ParseNote(lines[i]), half_up)

\* C6 witness: "60,100,1.0" then "60,100,1.0,0.0" gave a one-note transfer
MalformedLineSkipWitness ==
    /\ Sent
    /\ notes_data = <<LineThree, LineValid>>
    /\ WireValues = <<0, 1, 60, 100, 1, 0, 0, 0, 127>>

\* C7: an input without a valid note returns the failure result and puts
\* no message on the wire.
EmptyInput ==
    (Sent /\ ReadableLines = <<>>) =>
        /\ result = "No valid notes found in input data"
        /\ wire = <<>>

\* C7 witness: the call returned on an input of malformed lines only
EmptyInputWitness ==
    /\ Sent
    /\ notes_data = <<LineThree, LineText>>
    /\ result = "No valid notes found in input data"
    /\ wire = <<>>

Abs(x) == IF x < 0 THEN 0 - x ELSE x

\* C8: a length or position v in [0, 127.9] with two decimals is sent as
\* whole part w and decimal digit d with |v - (w + d/10)| <= 0.05.
RoundsToNearestTenth ==
    LET lines == ReadableLines
        sent == WireValues
    IN  Sent =>
        \A i \in 1..Len(lines) :
            LET line == lines[i]
                f == Frames(sent, i)
            IN  /\ line[3].v \in 0..12790 =>
                    Abs(line[3].v - (100 * f[3] + 10 * f[4])) <= 5
                /\ line[4].v \in 0..12790 =>
                    Abs(line[4].v - (100 * f[5] + 10 * f[6])) <= 5

\* the last note-on the host handled, seen from the step that handled it
Handled(v) == IsNoteOn(event') /\ event'.data1 = v

\* C3: in receiving mode with a count already received, a note-on 0 drops
\* the partial note and all progress of the transfer, and the next note-on
\* value is read as the count of a new transfer.
MidTransferRestart ==
    [][(receiving_mode /\ message_count # 0 /\ Handled(START_MARKER)) =>
            /\ receiving_mode'
            /\ message_count' = 0
            /\ messages_received' = 0
            /\ midi_notes_array' = <<>>
            /\ current_note' = NONE /\ current_velocity' = NONE
            /\ current_length' = NONE /\ current_position' = NONE]_vars

\* C4: every note the decoder completes is passed to channels.addNote in
\* the same call of OnMidiMsg, once and in completion order: the notes
\* collected in the current transfer are the last calls made to the host.
ForwardedToHost ==
    /\ Len(midi_notes_array) <= Len(host_notes)
    /\ midi_notes_array =
        SubSeq(host_notes, Len(host_notes) - Len(midi_notes_array) + 1,
               Len(host_notes))

\* the digits change_tempo put on the wire between its two markers
TempoDigits == Inner(WireValues)

IntegralBpm == bpm % 10 = 0

\* C9: for an integer BPM in 20..999 the digits of int_to_midi_bytes decode
\* to that BPM with midi_notes_to_int, on the wire and in the host's call;
\* 173 is sent as <<1, 45>>.
TempoRoundTrip ==
    (Sent /\ IntegralBpm /\ bpm \div 10 \in 20..999) =>
        /\ TempoDigits = int_to_midi_bytes(bpm \div 10)
        /\ midi_notes_to_int(TempoDigits) = bpm \div 10
        /\ bpm = 1730 => TempoDigits = <<1, 45>>
        /\ (bpm_value # NONE /\ note_array = TempoDigits) =>
                bpm_value = bpm \div 10

\* C9 witness: the host decoded the digits of 173
TempoRoundTripWitness ==
    /\ Sent
    /\ bpm = 1730
    /\ note_array = <<1, 45>>
    /\ bpm_value = 173
    /\ host_tempo = 173000

\* C10: change_tempo sends the digits of 20 for a BPM below 20, those of
\* 999 for a BPM above 999, and those of the BPM itself inside [20, 999]
\* (of its integer part, when the BPM has a fraction).
TempoClampOnEncode ==
    Sent =>
        /\ bpm < 200 => TempoDigits = <<20>>
        /\ bpm > 9990 => TempoDigits = <<7, 103>>
        /\ bpm \in 200..9990 =>
                /\ TempoDigits = int_to_midi_bytes(bpm \div 10)
                /\ 128 * (IF Len(TempoDigits) = 2 THEN TempoDigits[1] ELSE 0)
                        + TempoDigits[Len(TempoDigits)] = bpm \div 10
        /\ WireValues[1] = 72
        /\ WireValues[Len(WireValues)] = 73

\* C10 witness: BPM 15 was sent as the digit of 20
TempoClampOnEncodeWitness ==
    /\ Sent
    /\ bpm = 150
    /\ WireValues = <<72, 20, 73>>


\* C11: the BPM change_tempo_from_notes returns and hands to the host is in
\* [20, 999] for every digit sequence: a decoded value below 20 is applied
\* as 20 and one above 999 as 999.
TempoClampOnDecode ==
    bpm_value # NONE =>
        LET v == midi_notes_to_int(note_array)
        IN  /\ bpm_value \in 20..999
            /\ host_tempo = 1000 * bpm_value
            /\ v < 20 => bpm_value = 20
            /\ v > 999 => bpm_value = 999
            /\ v \in 20..999 => bpm_value = v

\* C11 witness: the digits of 1000 were applied as 999
TempoClampOnDecodeWitness ==
    /\ note_array = <<7, 104>>
    /\ bpm_value = 999
    /\ host_tempo = 999000


\* a note-off, or a note-on with velocity 0
NotANoteOn(ev) == ev.status < MIDI_NOTEON \/ ev.data2 = 0

\* C12: in any decoder state, a note-off or a note-on with velocity 0 leaves
\* the whole decoder state unchanged: the receiving flag, the expected and
\* the received count, the partial note and the collected notes.
IgnoresOtherEvents ==
    [][NotANoteOn(event') => UNCHANGED decoder_vars]_vars

\* C12 witness: a zero-velocity note-on arrived in the middle of a note
IgnoresOtherEventsWitness ==
    /\ event = NoteOn(1, 0)
    /\ receiving_mode
    /\ message_count = 5
    /\ messages_received = 2
    /\ current_note = 7
    /\ decimal_target = "length"


\* C13: every value is put on the wire as a note-on followed at once by the
\* note-off of the same note number, so the wire alternates note-on,
\* note-off in pairs of equal note numbers.
AtomicPairs ==
    /\ Len(wire) % 2 = 0
    /\ \A i \in 1..(Len(wire) \div 2) :
        /\ wire[2 * i - 1].status = MIDI_NOTEON
        /\ wire[2 * i - 1].data2 > 0
        /\ wire[2 * i].status = MIDI_NOTEOFF
        /\ wire[2 * i].data1 = wire[2 * i - 1].data1

\* C13 witness: the nine values of a one-note melody are on the wire
AtomicPairsWitness ==
    /\ Sent
    /\ Len(wire) = 18
    /\ wire[1] = NoteOn(START_MARKER, 1)
    /\ wire[2] = NoteOff(START_MARKER)
    /\ wire[17] = NoteOn(END_MARKER, 1)
    /\ wire[18] = NoteOff(END_MARKER)


\* C14: for every input, also one with pitch, velocity, length or position
\* far outside its domain, every value send_melody puts on the wire is in
\* 0..127 and every length_decimal and position_decimal frame is in 0..9.
FramesInRange ==
    LET sent == WireValues
    IN  Sent =>
            /\ \A i \in 1..Len(sent) : sent[i] \in 0..127
            /\ \A i \in 1..((Len(sent) - 3) \div 6) :
                /\ sent[6 * i] \in 0..9          \* length_decimal
                /\ sent[6 * i + 2] \in 0..9      \* position_decimal

\* C14 witness: a line with pitch -3, velocity 300 and length 130.0 was
\* sent as 0, 127, 127, 0, 3, 0
FramesInRangeWitness ==
    /\ Sent
    /\ notes_data = <<LineLong>>
    /\ WireValues = <<0, 1, 0, 127, 127, 0, 3, 0, 127>>


StartFromIdle ==
    [][(~receiving_mode /\ event'.status = MIDI_NOTEON /\ event'.data2 > 0) =>
            IF event'.data1 = 0
            THEN /\ receiving_mode'
                 /\ message_count' = 0
                 /\ messages_received' = 0
                 /\ midi_notes_array' = <<>>
                 /\ current_note' = NONE /\ current_velocity' = NONE
                 /\ current_length' = NONE /\ current_position' = NONE
            ELSE UNCHANGED decoder_vars]_vars

\* C16 witness: the start marker was handled and the count is awaited
StartFromIdleWitness ==
    /\ event = NoteOn(START_MARKER, 1)
    /\ receiving_mode
    /\ message_count = 0
    /\ messages_received = 0
    /\ midi_notes_array = <<>>
    /\ current_note = NONE

\* the decoder takes the next note-on as the count
AwaitingCount == receiving_mode /\ message_count = 0

\* C17: while the count is awaited, the next note-on value v, for every v
\* in 0..127, becomes the expected count and the decoder is receiving with
\* received count 0 and no longer awaits a count, so the note-on after it
\* is note data.
CountThenData ==
    [][(AwaitingCount /\ event'.status = MIDI_NOTEON /\ event'.data2 > 0) =>
            /\ receiving_mode'
            /\ message_count' = event'.data1
            /\ messages_received' = 0
            /\ ~AwaitingCount']_vars


\* C18: the decoder completes a note exactly on every sixth data frame:
\* the number of completed notes is the number of data frames received,
\* divided by 6 and rounded down.
SixFrameAssembly ==
    Len(midi_notes_array) = messages_received \div 6

\* no field of a note has been received since the last completed note
NoNoteInProgress ==
    /\ current_note = NONE /\ current_velocity = NONE
    /\ current_length = NONE /\ current_position = NONE

\* C19: after a start marker and a count c >= 1 the decoder leaves
\* receiving mode exactly when the c-th note is completed or when 127
\* arrives while no note is in progress, and at no other note-on.
EndOfTransfer ==
    [][(/\ receiving_mode
        /\ message_count >= 1
        /\ event'.status = MIDI_NOTEON /\ event'.data2 > 0) =>
            (~receiving_mode' <=>
                \/ Len(midi_notes_array') >= message_count
                \/ event'.data1 = END_MARKER /\ NoNoteInProgress)]_vars

\* C20: once every message of a send_melody transfer of n >= 1 notes has
\* been handled, in order, by a decoder that was idle, the decoder is idle
\* again and holds no partial note, also when n exceeds the count frame.
IdleAfterTransfer ==
    (Delivered /\ ParseNotes(notes_data) # <<>>) =>
        /\ ~receiving_mode
        /\ NoNoteInProgress


\* what a value does to the decoder apart from the number it stores: the
\* phase, the counters, how many notes are collected, which fields are set
Outline(g) ==
    [receiving_mode |-> g.receiving_mode,
     message_count |-> g.message_count,
     messages_received |-> g.messages_received,
     collected |-> Len(g.midi_notes_array),
     has_note |-> g.current_note # NONE,
     has_velocity |-> g.current_velocity # NONE,
     has_length |-> g.current_length # NONE,
     has_position |-> g.current_position # NONE,
     decimal_state |-> g.decimal_state,
     decimal_target |-> g.decimal_target]

\* the decoder's globals after the step
GlobalsAfter ==
    [receiving_mode |-> receiving_mode', message_count |-> message_count',
     messages_received |-> messages_received',
     midi_notes_array |-> midi_notes_array',
     current_note |-> current_note', current_velocity |-> current_velocity',
     current_length |-> current_length',
     current_position |-> current_position',
     decimal_state |-> decimal_state', decimal_target |-> decimal_target']

\* data values that are no marker of either side
PlainValues == {5, 7}

LossConfined ==
    (/\ lost # {}
     /\ Len(calls) = 1
     /\ Delivered
     /\ RoundTripInput) =>
        midi_notes_array =
            [i \in 1..Len(notes_data) |->
                <<notes_data[i][1].v \div 100, notes_data[i][2].v \div 100,
                  notes_data[i][3].v, notes_data[i][4].v>>]


\* C23: for every BPM change_tempo emits 72, the base-128 digits of the
\* clamped BPM with the most significant first, and 73, and nothing else;
\* the digits are in 0..127 and minimal: one digit for 20..127, two digits
\* without a leading 0 for 128..999; int_to_midi_bytes(0) is <<0>>.
TempoWireSequence ==
    Sent =>
        LET sent == WireValues
            digits == Inner(sent)
            clamped == IF bpm < 200 THEN 20
                       ELSE IF bpm > 9990 THEN 999 ELSE bpm \div 10
        IN  /\ Len(wire) = 2 * Len(sent)
            /\ Len(sent) = Len(digits) + 2
            /\ sent[1] = 72
            /\ sent[Len(sent)] = 73
            /\ \A i \in 1..Len(digits) : digits[i] \in 0..127
            /\ clamped \in 20..127 => digits = <<clamped>>
            /\ clamped \in 128..999 =>
                    /\ Len(digits) = 2
                    /\ digits[1] # 0
                    /\ 128 * digits[1] + digits[2] = clamped
            /\ int_to_midi_bytes(0) = <<0>>

\* C23 witness: 128, the smallest BPM of two digits, was sent
TempoWireSequenceWitness ==
    /\ Sent
    /\ bpm = 1280
    /\ WireValues = <<72, 1, 0, 73>>


RECURSIVE Base128(_)
\* result = result * 128 + digit over the digits in order, from 0, with a
\* digit outside 0..127 taken as the nearest of 0 and 127
Base128(digits) ==
    IF digits = <<>> THEN 0
    ELSE LET d == digits[Len(digits)]
         IN  128 * Base128(SubSeq(digits, 1, Len(digits) - 1))
                + (IF d < 0 THEN 0 ELSE IF d > 127 THEN 127 ELSE d)

\* C24: midi_notes_to_int returns the base-128 fold of its digits in
\* receive order, 0 for no digit, after clamping each digit into 0..127;
\* the tempo the host applies is that value, limited to [20, 999].
TempoFold ==
    bpm_value # NONE =>
        LET v == Base128(note_array)
        IN  /\ midi_notes_to_int(note_array) = v
            /\ bpm_value = (IF v < 20 THEN 20 ELSE IF v > 999 THEN 999 ELSE v)

\* C24 witness: a negative digit counted as 0 and 45 was applied
TempoFoldWitness ==
    /\ note_array = <<0 - 1, 45>>
    /\ bpm_value = 45
    /\ host_tempo = 45000


\* C25: for every BPM in 20..999, handling the messages of change_tempo,
\* 72, the digits and 73, leaves a note decoder that was idle idle, with
\* every global as it was.
TempoLeavesDecoderIdle ==
    (bpm # NONE /\ bpm \in 200..9990) => Globals = InitialGlobals


\* C26: for every BPM in 20..999 no digit emitted between the start marker
\* 72 and the end marker 73 equals 72 or 73, so the first 73 after the 72
\* is the end marker.
TempoDigitsAvoidMarkers ==
    (Sent /\ bpm \in 200..9990) =>
        LET sent == WireValues
        IN  /\ \A i \in 2..(Len(sent) - 1) :
                    sent[i] \notin {NOTE_TEMPO_START, NOTE_TEMPO_END}
            /\ \A i \in 2..Len(sent) :
                    sent[i] = NOTE_TEMPO_END => i = Len(sent)


\* a note-on with velocity > 0 is handled in this step
NoteOnHandled == event'.status = MIDI_NOTEON /\ event'.data2 > 0

\* C27: after a start marker and a count c in 1..127 the decoder leaves
\* receiving mode on the c-th note-on that follows and not before it,
\* whatever the values are: the count starts the tally at 0, and every
\* note-on, a 0 or a 127 too, adds one and ends the transfer iff it is
\* the c-th.
BoundedReturnToIdle ==
    [][/\ (AwaitingCount /\ NoteOnHandled /\ event'.data1 >= 1) =>
            /\ receiving_mode'
            /\ message_count' = event'.data1
            /\ messages_received' = 0
       /\ (receiving_mode /\ message_count >= 1 /\ NoteOnHandled) =>
            /\ message_count' = message_count
            /\ messages_received' = messages_received + 1
            /\ receiving_mode' <=> messages_received + 1 < message_count
      ]_vars

\* C27 witness: with count 5 the fifth note-on, a 0, ended the transfer
BoundedReturnToIdleWitness ==
    /\ event = NoteOn(START_MARKER, 1)
    /\ ~receiving_mode
    /\ message_count = 5
    /\ messages_received = 5


\* C28: in every reachable state each tuple of midi_notes_array has its
\* note, velocity, length and position set: none of them is None.
CollectedNotesComplete ==
    \A i \in 1..Len(midi_notes_array) :
        /\ Len(midi_notes_array[i]) = 4
        /\ \A k \in 1..4 : midi_notes_array[i][k] # NONE

\* C28 witness: the note (5, 1, 7.0, 7.0) was collected
CollectedNotesCompleteWitness ==
    /\ receiving_mode
    /\ midi_notes_array = <<<<5, 1, 700, 700>>>>
    /\ NoNoteInProgress


\* C29: while the decoder is receiving with a non-zero expected count,
\* messages_received < message_count; and messages_received changes only
\* by the reset to 0 at a start marker or by growing by exactly 1 at a
\* note-on handled while receiving.
CounterInvariant ==
    /\ [](receiving_mode /\ message_count # 0 =>
            messages_received < message_count)
    /\ [][messages_received' # messages_received =>
            \/ /\ ~receiving_mode
               /\ NoteOnHandled
               /\ event'.data1 = START_MARKER
               /\ messages_received' = 0
            \/ /\ receiving_mode
               /\ NoteOnHandled
               /\ messages_received' = messages_received + 1]_vars

\* C29 witness: four of five expected messages have been counted
CounterInvariantWitness ==
    /\ receiving_mode
    /\ message_count = 5
    /\ messages_received = 4
    /\ event.status = MIDI_NOTEON

====
